---- MODULE Spec2Model ----
(***************************************************************************)
(* tcp-tester client: the rate-controlled generator start_client_at_rate,  *)
(* the connection lifecycle run_client with the control-plane setup        *)
(* setup_ebpf, and the data exchange send_random_data                      *)
(* (load-generator/tcp-tester/src/bin/tcp-tester/client.rs).               *)
(*                                                                         *)
(* Scheduling: one execution unit runs the generator and every spawned     *)
(* lifecycle cooperatively.  A task keeps the unit from one .await to the  *)
(* next; `running` names the task that holds it.  A panic (a failed        *)
(* unwrap) inside a spawned task unwinds that task only.                   *)
(***************************************************************************)
EXTENDS Integers, Sequences, FiniteSets

\* ---------------------------------------------------------------- bounds
MaxSpawn == 3        \* lifecycles followed step by step (Spec)
MaxGenSpawn == 12    \* lifecycles spawned when only the generator is followed
MaxRate == 5         \* rates 0..MaxRate are tried by the generator runs

\* ------------------------------------------------------ program constants
MicrosPerSec == 1000000
ThresholdVersion == <<5, 7, 0>>
PacketsLo == 50
PacketsHi == 150
LenLo == 200
LenHi == 2048
DataSize == 2048

CLIENT_NAMESPACE == "nfm-perf-test-client"
TCP_TESTER_NAMESPACE == "nfm-perf-test-tcp-tester"
HostNs == "host"

\* The two attachment points of the packet-path program.
EgressI2 == [if |-> "i2", dir |-> "Egress"]
IngressI3 == [if |-> "i3", dir |-> "Ingress"]

\* Who holds the execution unit.
Idle == 0
Gen == 0 - 1

\* ------------------------------------------------------------- input sets
Rates == (0 .. MaxRate) \cup {7, MicrosPerSec - 1, MicrosPerSec, MicrosPerSec + 1}
MainRates == {1, 2}
Versions == {<<ma, mi, pa>> : ma \in 4 .. 6, mi \in 5 .. 8, pa \in 0 .. 2}
KernelSamples == {<<5, 6, 2>>, <<5, 7, 0>>}
PacketSamples == {PacketsLo, PacketsLo + 1, PacketsHi - 1}
LenSamples == {LenLo, LenHi - 1}

VARIABLES
    rate,                    \* start_client_at_rate's rate: u32
    enable_traffic_shaping,  \* flag: fault injection on
    send_data,               \* flag: data exchange after connect
    kernel,                  \* KernelVersion::current(): <<major, minor, patch>>
    gpc,                     \* where start_client_at_rate is
    micros_per_txn,          \* the interval, in microseconds
    num_spawned,             \* the loop's counter (u32)
    ticksDone,               \* completed interval.tick() calls
    now,                     \* time elapsed, in intervals
    milestones,              \* "Initiated N transactions" lines logged
    tasks,                   \* the spawned lifecycles, in spawn order
    running,                 \* Idle, Gen, or the index of the running task
    threadNs,                \* network namespace of the execution unit
    clsact                   \* interfaces of the middlebox with a clsact qdisc

genVars == <<gpc, micros_per_txn, num_spawned, ticksDone, now, milestones>>
params == <<rate, enable_traffic_shaping, send_data, kernel>>
vars == <<rate, enable_traffic_shaping, send_data, kernel, gpc, micros_per_txn,
          num_spawned, ticksDone, now, milestones, tasks, running, threadNs, clsact>>

\* ------------------------------------------------------------------ tasks
\* A lifecycle as tokio::spawn creates it: not polled yet, nothing held.
NewTask(at) ==
    [pc |-> "spawned", at |-> at, ns |-> FALSE, src_ns |-> "none",
     bpf |-> "Unloaded", tcLoaded |-> FALSE, tcAttach |-> {},
     sockLoaded |-> FALSE, sockAttached |-> FALSE, mode |-> "none",
     mapHandle |-> FALSE, map |-> {}, configRead |-> FALSE,
     stream |-> "none", logged |-> FALSE, outcome |-> "none",
     packets |-> 0, sent |-> 0, len |-> 0, wrote |-> 0, readFailed |-> FALSE,
     connected |-> FALSE, exchange |-> "none", shutdowns |-> 0]

Spawned == Len(tasks)
TaskIds == 1 .. Len(tasks)
FirstTask == {i \in TaskIds : i = 1}

\* Dropping the Ebpf value: its programs are unloaded, their links detached
\* and the map handle taken from it is gone.
DropEbpf(t) ==
    [t EXCEPT !.bpf = IF t.bpf = "Unloaded" THEN "Unloaded" ELSE "Dropped",
              !.tcLoaded = FALSE, !.tcAttach = {},
              !.sockLoaded = FALSE, !.sockAttached = FALSE, !.mode = "none",
              !.mapHandle = FALSE, !.map = {}]

\* A panic with the whole process as its scope (not what tokio::spawn does).
PanicInTask_Abort(i, kind) ==
    /\ tasks' = [tasks EXCEPT ![i] =
                   [DropEbpf(tasks[i]) EXCEPT !.pc = "panicked", !.outcome = kind,
                                              !.stream = "none"]]
    /\ running' = Idle
    /\ gpc' = "panicked"
    /\ UNCHANGED <<params, micros_per_txn, num_spawned, ticksDone, now, milestones,
                   threadNs, clsact>>

\* A failed unwrap inside a spawned task: the task unwinds (its locals are
\* dropped) and ends; the runtime goes on with the other tasks.  The
\* execution unit stays in whatever namespace it was in.
PanicInTask(i, kind) ==
    /\ tasks' = [tasks EXCEPT ![i] =
                   [DropEbpf(tasks[i]) EXCEPT !.pc = "panicked", !.outcome = kind,
                                              !.stream = "none"]]
    /\ running' = Idle
    /\ UNCHANGED <<params, genVars, threadNs, clsact>>

\* A step of task i that keeps the unit and changes only the task.
Step(i, t) ==
    /\ tasks' = [tasks EXCEPT ![i] = t]
    /\ UNCHANGED <<params, genVars, running, threadNs, clsact>>

\* A step of task i that ends at an .await (or at the task's end).
Yield(i, t) ==
    /\ tasks' = [tasks EXCEPT ![i] = t]
    /\ running' = Idle
    /\ UNCHANGED <<params, genVars, threadNs, clsact>>

\* ------------------------------------------------- start_client_at_rate
\* An interval rounded up instead of down.
start_client_at_rate_RoundUp ==
    /\ gpc = "start" /\ running = Gen
    /\ IF rate = 0
         THEN /\ gpc' = "panicked"
              /\ running' = Idle
              /\ UNCHANGED micros_per_txn
         ELSE /\ micros_per_txn' = (MicrosPerSec + rate - 1) \div rate
              /\ gpc' = "spawn"
              /\ UNCHANGED running
    /\ UNCHANGED <<params, num_spawned, ticksDone, now, milestones, tasks,
                   threadNs, clsact>>

\* lines 189-197: the interval; 1_000_000 / 0 panics, and a zero period
\* makes tokio::time::interval panic.
start_client_at_rate ==
    /\ gpc = "start" /\ running = Gen
    /\ IF rate = 0 \/ MicrosPerSec \div rate = 0
         THEN /\ gpc' = "panicked"
              /\ running' = Idle
              /\ UNCHANGED micros_per_txn
         ELSE /\ micros_per_txn' = MicrosPerSec \div rate
              /\ gpc' = "spawn"
              /\ UNCHANGED running
    /\ UNCHANGED <<params, num_spawned, ticksDone, now, milestones, tasks,
                   threadNs, clsact>>

\* A loop body that spawns two lifecycles per pass.
spawn_client_Twice ==
    /\ gpc = "spawn" /\ running = Gen
    /\ tasks' = Append(Append(tasks, NewTask(now)), NewTask(now))
    /\ gpc' = "count"
    /\ UNCHANGED <<params, micros_per_txn, num_spawned, ticksDone, now, milestones,
                   running, threadNs, clsact>>

\* lines 199-204: tokio::spawn(run_client(..)); the task is queued, not run.
spawn_client ==
    /\ gpc = "spawn" /\ running = Gen
    /\ tasks' = Append(tasks, NewTask(now))
    /\ gpc' = "count"
    /\ UNCHANGED <<params, micros_per_txn, num_spawned, ticksDone, now, milestones,
                   running, threadNs, clsact>>

\* line 206: num_spawned += 1 (u32; rate is a u32 too, and the counter is
\* shown below never to pass it, so the addition is not reduced mod 2^32)
count_spawn ==
    /\ gpc = "count" /\ running = Gen
    /\ num_spawned' = num_spawned + 1
    /\ gpc' = "milestone"
    /\ UNCHANGED <<params, micros_per_txn, ticksDone, now, milestones, tasks,
                   running, threadNs, clsact>>

\* A milestone test that lets the counter run past the rate.
report_milestone_Late ==
    /\ gpc = "milestone" /\ running = Gen
    /\ IF num_spawned > rate
         THEN milestones' = milestones + 1 /\ num_spawned' = 0
         ELSE UNCHANGED <<milestones, num_spawned>>
    /\ gpc' = "tick_call"
    /\ UNCHANGED <<params, micros_per_txn, ticksDone, now, tasks, running,
                   threadNs, clsact>>

\* lines 207-210: every rate spawns, log a milestone and reset the counter.
report_milestone ==
    /\ gpc = "milestone" /\ running = Gen
    /\ IF num_spawned = rate
         THEN milestones' = milestones + 1 /\ num_spawned' = 0
         ELSE UNCHANGED <<milestones, num_spawned>>
    /\ gpc' = "tick_call"
    /\ UNCHANGED <<params, micros_per_txn, ticksDone, now, tasks, running,
                   threadNs, clsact>>

\* An interval whose first tick is awaited like every other.
tick_call_Await ==
    /\ gpc = "tick_call" /\ running = Gen
    /\ gpc' = "tick"
    /\ running' = Idle
    /\ UNCHANGED <<params, micros_per_txn, num_spawned, ticksDone, now, milestones,
                   tasks, threadNs, clsact>>

\* line 212, the call: the first tick of a tokio interval completes at once
\* (the generator goes on without yielding); later ticks are awaited.
tick_call ==
    /\ gpc = "tick_call" /\ running = Gen
    /\ IF ticksDone = 0
         THEN /\ ticksDone' = 1
              /\ gpc' = "spawn"
              /\ UNCHANGED running
         ELSE /\ gpc' = "tick"
              /\ running' = Idle
              /\ UNCHANGED ticksDone
    /\ UNCHANGED <<params, micros_per_txn, num_spawned, now, milestones, tasks,
                   threadNs, clsact>>

\* A loop that joins the lifecycles it has spawned before the next pass.
tick_fire_Join(cap) ==
    /\ gpc = "tick" /\ running = Idle
    /\ Spawned < cap
    /\ \A i \in TaskIds : tasks[i].pc \in {"done", "panicked"}
    /\ now' = now + 1
    /\ ticksDone' = ticksDone + 1
    /\ gpc' = "spawn"
    /\ running' = Gen
    /\ UNCHANGED <<params, micros_per_txn, num_spawned, milestones, tasks,
                   threadNs, clsact>>

\* line 212, the wake-up: one interval after the previous tick.  The run is
\* cut off after cap lifecycles: the loop itself never ends.
tick_fire(cap) ==
    /\ gpc = "tick" /\ running = Idle
    /\ Spawned < cap
    /\ now' = now + 1
    /\ ticksDone' = ticksDone + 1
    /\ gpc' = "spawn"
    /\ running' = Gen
    /\ UNCHANGED <<params, micros_per_txn, num_spawned, milestones, tasks,
                   threadNs, clsact>>

\* ------------------------------------------------------------ run_client
\* line 123: NetNs::get(CLIENT_NAMESPACE).unwrap(), the task's first poll.
get_client_namespace(i) ==
    /\ tasks[i].pc = "spawned" /\ running = Idle
    /\ \E ok \in BOOLEAN :
         IF ok
           THEN /\ tasks' = [tasks EXCEPT ![i].pc = "branch", ![i].ns = TRUE]
                /\ running' = i
                /\ UNCHANGED <<params, genVars, threadNs, clsact>>
           ELSE PanicInTask(i, "setup")

\* A branch that sets the control plane up whatever the flag says.
select_path_Always(i) ==
    /\ tasks[i].pc = "branch" /\ running = i
    /\ Step(i, [tasks[i] EXCEPT !.pc = "load_ebpf"])

\* line 124: if enable_traffic_shaping { setup_ebpf .. } else { connect_sans_tc }
select_path(i) ==
    /\ tasks[i].pc = "branch" /\ running = i
    /\ Step(i, [tasks[i] EXCEPT !.pc = IF enable_traffic_shaping
                                         THEN "load_ebpf" ELSE "connect_sans_tc"])

\* ------------------------------------------------------------ setup_ebpf
\* line 50: ebpf_loader::load_ebpf_program().unwrap()
load_ebpf_program(i) ==
    /\ tasks[i].pc = "load_ebpf" /\ running = i
    /\ \E ok \in BOOLEAN :
         IF ok THEN Step(i, [tasks[i] EXCEPT !.pc = "get_tester_ns", !.bpf = "Loaded"])
               ELSE PanicInTask(i, "setup")

\* line 53: NetNs::get(TCP_TESTER_NAMESPACE).unwrap()
get_tester_namespace(i) ==
    /\ tasks[i].pc = "get_tester_ns" /\ running = i
    /\ \E ok \in BOOLEAN :
         IF ok THEN Step(i, [tasks[i] EXCEPT !.pc = "ns_enter"])
               ELSE PanicInTask(i, "setup")

\* lines 54-55: namespace.run(..) on entry: remember the unit's namespace and
\* switch to the middlebox (no switch if the unit is already there).  A failed
\* switch makes run return Err, which line 82 unwraps.
namespace_run_enter(i) ==
    /\ tasks[i].pc = "ns_enter" /\ running = i
    /\ \E ok \in BOOLEAN :
         IF ok
           THEN /\ tasks' = [tasks EXCEPT ![i].pc = "qdisc", ![i].src_ns = threadNs]
                /\ threadNs' = TCP_TESTER_NAMESPACE
                /\ UNCHANGED <<params, genVars, running, clsact>>
           ELSE PanicInTask(i, "setup")

\* Hook-point creation whose errors are unwrapped.
qdisc_add_clsact_Checked(i) ==
    /\ tasks[i].pc = "qdisc" /\ running = i
    /\ \E added \in SUBSET {"i2", "i3"} :
         IF added = {"i2", "i3"} /\ clsact = {}
           THEN /\ clsact' = clsact \cup added
                /\ tasks' = [tasks EXCEPT ![i].pc = "tc_load"]
                /\ UNCHANGED <<params, genVars, running, threadNs>>
           ELSE PanicInTask(i, "setup")

\* lines 56-57: let _ = tc::qdisc_add_clsact("i2" / "i3"): the results are
\* dropped; a qdisc that exists already is one of the errors ignored.
qdisc_add_clsact(i) ==
    /\ tasks[i].pc = "qdisc" /\ running = i
    /\ \E added \in SUBSET {"i2", "i3"} :
         /\ clsact' = clsact \cup added
         /\ tasks' = [tasks EXCEPT ![i].pc = "tc_load"]
         /\ UNCHANGED <<params, genVars, running, threadNs>>

\* lines 59-65: program_mut("tcp_tester_tc_egress") .. program.load().unwrap()
load_tc_program(i) ==
    /\ tasks[i].pc = "tc_load" /\ running = i
    /\ \E ok \in BOOLEAN :
         IF ok THEN Step(i, [tasks[i] EXCEPT !.pc = "attach_i2", !.tcLoaded = TRUE])
               ELSE PanicInTask(i, "setup")

\* A first attach made at ingress on i3.
attach_egress_Swapped(i) ==
    /\ tasks[i].pc = "attach_i2" /\ running = i
    /\ \E ok \in BOOLEAN :
         IF ok /\ tasks[i].tcLoaded
           THEN Step(i, [tasks[i] EXCEPT !.pc = "attach_i3",
                                         !.tcAttach = @ \cup {IngressI3}])
           ELSE PanicInTask(i, "setup")

\* lines 67-73: attach at egress on i2
attach_egress(i) ==
    /\ tasks[i].pc = "attach_i2" /\ running = i
    /\ \E ok \in BOOLEAN :
         IF ok /\ tasks[i].tcLoaded
           THEN Step(i, [tasks[i] EXCEPT !.pc = "attach_i3",
                                         !.tcAttach = @ \cup {EgressI2}])
           ELSE PanicInTask(i, "setup")

\* An ingress attach that is left out.
attach_ingress_Skip(i) ==
    /\ tasks[i].pc = "attach_i3" /\ running = i
    /\ Step(i, [tasks[i] EXCEPT !.pc = "ns_exit"])

\* lines 74-80: attach at ingress on i3
attach_ingress(i) ==
    /\ tasks[i].pc = "attach_i3" /\ running = i
    /\ \E ok \in BOOLEAN :
         IF ok /\ tasks[i].tcLoaded
           THEN Step(i, [tasks[i] EXCEPT !.pc = "ns_exit",
                                         !.tcAttach = @ \cup {IngressI3}])
           ELSE PanicInTask(i, "setup")

\* lines 81-82: the closure returned: run switches back to the namespace it
\* came from; if that fails it returns Err and the unwrap panics.
namespace_run_exit(i) ==
    /\ tasks[i].pc = "ns_exit" /\ running = i
    /\ \E ok \in BOOLEAN :
         IF ok
           THEN /\ tasks' = [tasks EXCEPT ![i].pc = "sock_load", ![i].src_ns = "none"]
                /\ threadNs' = tasks[i].src_ns
                /\ UNCHANGED <<params, genVars, running, clsact>>
           ELSE PanicInTask(i, "setup")

\* lines 85-90: program_mut("tcp_tester_sockops") .. program.load().unwrap()
load_sockops_program(i) ==
    /\ tasks[i].pc = "sock_load" /\ running = i
    /\ \E ok \in BOOLEAN :
         IF ok THEN Step(i, [tasks[i] EXCEPT !.pc = "sock_attach", !.sockLoaded = TRUE])
               ELSE PanicInTask(i, "setup")

\* lexicographic order of (major, minor, patch): KernelVersion's derived Ord
VersionGE(a, b) ==
    \/ a[1] > b[1]
    \/ a[1] = b[1] /\ a[2] > b[2]
    \/ a[1] = b[1] /\ a[2] = b[2] /\ a[3] >= b[3]

\* The comparison with the threshold itself on the wrong side.
get_attach_mode_Strict(v) ==
    IF VersionGE(v, ThresholdVersion) /\ v # ThresholdVersion
      THEN "Single" ELSE "AllowMultiple"

\* lines 99-107
get_attach_mode(v) ==
    IF VersionGE(v, ThresholdVersion) THEN "Single" ELSE "AllowMultiple"

\* lines 91-96: open the cgroup, attach the socket hook with get_attach_mode(),
\* return the Ebpf value.
attach_sockops(i) ==
    /\ tasks[i].pc = "sock_attach" /\ running = i
    /\ \E ok \in BOOLEAN :
         IF ok /\ tasks[i].sockLoaded
           THEN Step(i, [tasks[i] EXCEPT !.pc = "map_handle", !.sockAttached = TRUE,
                                         !.mode = get_attach_mode(kernel),
                                         !.bpf = "Attached"])
           ELSE PanicInTask(i, "setup")

\* --------------------------------------------- run_client, shaping branch
\* lines 126-128: bpf.map_mut("SOCKET_CONFIG"), HashMap::try_from,
\* ClientSocketBuilder::new
take_socket_config(i) ==
    /\ tasks[i].pc = "map_handle" /\ running = i
    /\ \E ok \in BOOLEAN :
         IF ok THEN Step(i, [tasks[i] EXCEPT !.pc = "get_config", !.mapHandle = TRUE])
               ELSE PanicInTask(i, "setup")

\* lines 129, 36-43: open, read and parse the configuration file
get_config_from_file(i) ==
    /\ tasks[i].pc = "get_config" /\ running = i
    /\ \E ok \in BOOLEAN :
         IF ok THEN Step(i, [tasks[i] EXCEPT !.pc = "builder_connect", !.configRead = TRUE])
               ELSE PanicInTask(i, "setup")

\* A builder that opens the connection before the flow is registered.
builder_connect_ConnectFirst(i) ==
    /\ tasks[i].pc = "builder_connect" /\ running = i
    /\ Yield(i, [tasks[i] EXCEPT !.pc = "connecting", !.stream = "pending"])

\* line 130: socket_builder.connect(addr, config, config): the flow's two
\* configurations are written under its key, then the connection is opened
\* from the client namespace.  A failed write or namespace entry is an Err
\* returned at once; otherwise the task awaits the connect.
builder_connect(i) ==
    /\ tasks[i].pc = "builder_connect" /\ running = i
    /\ \E res \in {"ConfigWriteFailed", "NamespaceError", "started"} :
         CASE res = "ConfigWriteFailed" ->
                Step(i, [tasks[i] EXCEPT !.pc = "end_block", !.stream = "err"])
           [] res = "NamespaceError" ->
                Step(i, [tasks[i] EXCEPT !.pc = "end_block", !.stream = "err",
                                         !.map = {i}])
           [] OTHER ->
                Yield(i, [tasks[i] EXCEPT !.pc = "connecting", !.stream = "pending",
                                          !.map = {i}])

\* line 132: connect_sans_tc(client_namespace, addr): no map, connect from the
\* client namespace.
connect_sans_tc(i) ==
    /\ tasks[i].pc = "connect_sans_tc" /\ running = i
    /\ \E res \in {"NamespaceError", "started"} :
         IF res = "NamespaceError"
           THEN Step(i, [tasks[i] EXCEPT !.pc = "end_block", !.stream = "err"])
           ELSE Yield(i, [tasks[i] EXCEPT !.pc = "connecting", !.stream = "pending"])

\* lines 130/132, the .await completes: connected or ConnectFailed.
connect_done(i) ==
    /\ tasks[i].pc = "connecting" /\ running = Idle
    /\ \E ok \in BOOLEAN :
         /\ tasks' = [tasks EXCEPT ![i].pc = "end_block",
                                   ![i].stream = IF ok THEN "ok" ELSE "err",
                                   ![i].connected = ok]
         /\ running' = i
         /\ UNCHANGED <<params, genVars, threadNs, clsact>>

\* lines 131/133: the if-block ends: bpf, the map handle and the builder are
\* locals of the block and are dropped here; the stream result is moved out.
end_connect_block(i) ==
    /\ tasks[i].pc = "end_block" /\ running = i
    /\ Step(i, [DropEbpf(tasks[i]) EXCEPT !.pc = "match"])

\* A match that takes every result for a connected stream.
match_stream_result_AnyOk(i) ==
    /\ tasks[i].pc = "match" /\ running = i
    /\ Step(i, [tasks[i] EXCEPT !.pc = IF send_data THEN "nodelay" ELSE "shutdown"])

\* lines 135-151: Ok: go on to the data exchange or to the shutdown;
\* Err: log "Failed to connect" and end.
match_stream_result(i) ==
    /\ tasks[i].pc = "match" /\ running = i
    /\ IF tasks[i].stream = "ok"
         THEN Step(i, [tasks[i] EXCEPT !.pc = IF send_data THEN "nodelay" ELSE "shutdown"])
         ELSE Yield(i, [tasks[i] EXCEPT !.pc = "done", !.logged = TRUE,
                                        !.outcome = "connect_failed", !.stream = "none"])

\* line 146: stream.shutdown().await, the call
shutdown_call(i) ==
    /\ tasks[i].pc = "shutdown" /\ running = i
    /\ Yield(i, [tasks[i] EXCEPT !.pc = "shutting", !.shutdowns = @ + 1])

\* line 146: the shutdown completes; unwrap panics on an error.  The task
\* ends and the stream is dropped.
shutdown_done(i) ==
    /\ tasks[i].pc = "shutting" /\ running = Idle
    /\ \E ok \in BOOLEAN :
         IF ok
           THEN Yield(i, [tasks[i] EXCEPT !.pc = "done", !.outcome = "closed",
                                          !.stream = "closed"])
           ELSE PanicInTask(i, "io")

\* ------------------------------------------------------ send_random_data
\* lines 141, 155-157: send_random_data is entered: set_nodelay(true).unwrap();
\* packets = random_range(50..150)
set_nodelay(i) ==
    /\ tasks[i].pc = "nodelay" /\ running = i
    /\ \E ok \in BOOLEAN :
         IF ok
           THEN \E p \in PacketSamples :
                  Step(i, [tasks[i] EXCEPT !.pc = "loop", !.packets = p, !.sent = 0,
                                           !.exchange = "started"])
           ELSE PanicInTask(i, "io")

\* lines 160-164: for _ in 0..packets: len = random_range(200..2048), fill
\* data[..len], write_all(&data): the whole 2048-byte buffer is written.
next_packet(i) ==
    /\ tasks[i].pc = "loop" /\ running = i
    /\ IF tasks[i].sent < tasks[i].packets
         THEN \E l \in LenSamples :
                Yield(i, [tasks[i] EXCEPT !.pc = "writing", !.len = l,
                                          !.wrote = DataSize])
         ELSE Step(i, [tasks[i] EXCEPT !.pc = "shutdown", !.len = 0, !.wrote = 0,
                                       !.exchange = "finished"])

\* lines 164-166: the write completes (unwrap panics on an error), then
\* read_exact of a len-byte response is awaited.
write_done(i) ==
    /\ tasks[i].pc = "writing" /\ running = Idle
    /\ \E ok \in BOOLEAN :
         IF ok THEN Yield(i, [tasks[i] EXCEPT !.pc = "reading"])
               ELSE PanicInTask(i, "io")

\* A response read whose error is unwrapped like the write's.
read_done_Unwrap(i) ==
    /\ tasks[i].pc = "reading" /\ running = Idle
    /\ \E ok \in BOOLEAN :
         IF ok THEN Yield(i, [tasks[i] EXCEPT !.pc = "sleeping"])
               ELSE PanicInTask(i, "io")

\* lines 166-170: the read completes; an error is logged at debug level and
\* ignored; then sleep(10 ms) is awaited.
read_done(i) ==
    /\ tasks[i].pc = "reading" /\ running = Idle
    /\ \E ok \in BOOLEAN :
         Yield(i, [tasks[i] EXCEPT !.pc = "sleeping",
                                   !.readFailed = @ \/ ~ok])

\* lines 170, 160: the pacing delay is over: one more round done.
sleep_done(i) ==
    /\ tasks[i].pc = "sleeping" /\ running = Idle
    /\ tasks' = [tasks EXCEPT ![i].pc = "loop", ![i].sent = @ + 1]
    /\ running' = i
    /\ UNCHANGED <<params, genVars, threadNs, clsact>>

\* ---------------------------------------------------------- specifications
InitWith(R, K, E, S) ==
    /\ rate \in R
    /\ kernel \in K
    /\ enable_traffic_shaping \in E
    /\ send_data \in S
    /\ gpc = "start"
    /\ micros_per_txn = 0
    /\ num_spawned = 0
    /\ ticksDone = 0
    /\ now = 0
    /\ milestones = 0
    /\ tasks = <<>>
    /\ running = Gen
    /\ threadNs = HostNs
    /\ clsact = {}

Generator(cap) ==
    \/ start_client_at_rate
    \/ spawn_client
    \/ count_spawn
    \/ report_milestone
    \/ tick_call
    \/ tick_fire(cap)

\* run_client up to the end of the connection, without the data exchange
Connection(i) ==
    \/ get_client_namespace(i)
    \/ select_path(i)
    \/ load_ebpf_program(i)
    \/ get_tester_namespace(i)
    \/ namespace_run_enter(i)
    \/ qdisc_add_clsact(i)
    \/ load_tc_program(i)
    \/ attach_egress(i)
    \/ attach_ingress(i)
    \/ namespace_run_exit(i)
    \/ load_sockops_program(i)
    \/ attach_sockops(i)
    \/ take_socket_config(i)
    \/ get_config_from_file(i)
    \/ builder_connect(i)
    \/ connect_sans_tc(i)
    \/ connect_done(i)
    \/ end_connect_block(i)
    \/ match_stream_result(i)
    \/ shutdown_call(i)
    \/ shutdown_done(i)

DataExchange(i) ==
    \/ set_nodelay(i)
    \/ next_packet(i)
    \/ write_done(i)
    \/ read_done(i)
    \/ sleep_done(i)

\* Concurrent lifecycles without data exchange, every interleaving.
Init == InitWith(MainRates, KernelSamples, BOOLEAN, {FALSE})
Next == Generator(MaxSpawn) \/ \E i \in TaskIds : Connection(i)
Spec == Init /\ [][Next]_vars

\* The same, with the scheduling the runtime gives: the interval timer fires
\* and the generator is polled (lines 198-213), and a polled task runs to its
\* next .await.  Nothing is assumed of the completion of an awaited I/O
\* operation (lines 130, 132, 146): a connect may never return.
SyncStep == \E i \in TaskIds : running = i /\ Connection(i)
SpecLive == Spec /\ WF_vars(Generator(MaxSpawn)) /\ WF_vars(SyncStep)

\* The generator alone: the spawned lifecycles are not polled.
InitGen == InitWith(Rates, {ThresholdVersion}, BOOLEAN, {FALSE})
NextGen == Generator(MaxGenSpawn)
SpecGen == InitGen /\ [][NextGen]_vars

\* The first lifecycle alone, on every kernel version.
InitMode == InitWith({1}, Versions, {TRUE}, {FALSE})
NextMode == Generator(MaxSpawn) \/ \E i \in FirstTask : Connection(i)
SpecMode == InitMode /\ [][NextMode]_vars

\* The first lifecycle alone, with its data exchange.
InitData == InitWith({1}, {ThresholdVersion}, BOOLEAN, BOOLEAN)
NextData ==
    Generator(MaxSpawn) \/ \E i \in FirstTask : Connection(i) \/ DataExchange(i)
SpecData == InitData /\ [][NextData]_vars

\* The same, when every operation the first lifecycle awaits returns (lines
\* 130, 132, 146, 164, 166, 170) and the runtime polls it and the generator.
LifecycleStep == \E i \in FirstTask : Connection(i) \/ DataExchange(i)
SpecDataLive == SpecData /\ WF_vars(Generator(MaxSpawn)) /\ WF_vars(LifecycleStep)

\* ------------------------------------------------------------------ claims
Ended == {"done", "panicked"}
SetupDone(t) == t.bpf = "Attached" /\ t.tcAttach = {EgressI2, IngressI3} /\ t.sockAttached
Holding == {i \in TaskIds : tasks[i].bpf \in {"Loaded", "Attached"}}

\* C1 (as claimed): the interception programs are loaded and attached at most
\* once per process: at most one lifecycle holds loaded programs, and no
\* lifecycle runs the initialization while another lifecycle's control plane
\* is Attached.
C1_InitializedOnce ==
    /\ Cardinality(Holding) <= 1
    /\ \A i, j \in TaskIds :
         (i # j /\ tasks[j].bpf = "Attached") => tasks[i].bpf \notin {"Loaded", "Attached"}

\* C2: on the fault-injection path a lifecycle's connection attempt begins, and
\* its connect is pending, only with the packet-path program attached at egress
\* on i2 and ingress on i3 and the socket hook attached to the cgroup.
C2_AttachedBeforeConnect ==
    \A i \in TaskIds :
      (enable_traffic_shaping /\ (tasks[i].pc \in {"builder_connect", "connecting"}
                                   \/ tasks[i].stream = "pending"))
        => SetupDone(tasks[i])

C2_Witness ==
    \E i \in TaskIds :
      enable_traffic_shaping /\ tasks[i].pc = "connecting" /\ tasks[i].stream = "pending"

\* C3 (as claimed): a connection opened on the fault-injection path has its
\* programs attached and its map alive after the connect, through the data
\* exchange and the graceful shutdown.
C3_AttachedThroughConnection ==
    \A i \in TaskIds :
      (enable_traffic_shaping
         /\ tasks[i].pc \in {"match", "nodelay", "loop", "writing", "reading",
                             "sleeping", "shutdown", "shutting"}
         /\ tasks[i].stream = "ok")
        => SetupDone(tasks[i])

\* C4: a failure of one lifecycle (a connect error, or a panic anywhere in the
\* task) changes nothing of any other lifecycle and nothing of the generator,
\* frees the execution unit, and a connect error is logged; the generator loop
\* itself never stops.
FailsIn(i) ==
    /\ tasks[i].pc \notin Ended
    /\ tasks'[i].pc = "panicked" \/ tasks'[i].outcome = "connect_failed"

C5_SetupErrorStopsSpawning ==
    [][(\E i \in TaskIds : tasks[i].outcome = "setup") => Len(tasks') = Len(tasks)]_vars

\* Rates that divide one second.
Divides == rate >= 1 /\ MicrosPerSec % rate = 0

\* C6 (as claimed): when rate * T intervals have run (the tick that ends them
\* is due), between rate*T - 1 and rate*T + 1 lifecycles are spawned and exactly
\* T milestones are logged.
C6_RateFidelity ==
    (Divides /\ gpc = "tick" /\ (now + 1) % rate = 0)
      => LET T == (now + 1) \div rate
         IN  /\ Spawned \in (rate * T - 1) .. (rate * T + 1)
             /\ milestones = T

\* C6 (amended): when rate * T intervals have run, rate*T + 1 lifecycles are
\* spawned (two of them at time 0) and floor((rate*T + 1) / rate) milestones are
\* logged: T for rate >= 2, T + 1 for rate = 1; once the tick at T is handled
\* the count is rate*T + 2.
C6_RateFidelityAmended ==
    /\ (Divides /\ gpc = "tick" /\ (now + 1) % rate = 0)
         => LET T == (now + 1) \div rate
            IN  /\ Spawned = rate * T + 1
                /\ milestones = (rate * T + 1) \div rate
                /\ milestones = IF rate = 1 THEN T + 1 ELSE T
    /\ (Divides /\ gpc = "tick" /\ now >= 1 /\ now % rate = 0)
         => Spawned = now + 2

C6_Witness == rate = 5 /\ gpc = "tick" /\ now + 1 = 10 /\ milestones = 2

\* C7 (as claimed): lifecycles are spawned only at ticks, one per tick, and two
\* consecutive spawns are one interval apart.
C7_OnePerTick ==
    /\ Spawned <= ticksDone
    /\ \A n \in 2 .. Spawned : tasks[n].at - tasks[n - 1].at = 1

\* C7 (amended): one lifecycle is spawned on entering the loop, before any
\* tick, and one after each completed tick; the first tick completes at once,
\* so the first two spawns fall on the same instant, and every later spawn is
\* exactly one interval after the one before it.
C7_OnePerTickAmended ==
    /\ gpc = "spawn" => Spawned = ticksDone
    /\ gpc \in {"count", "milestone", "tick_call", "tick"} => Spawned = ticksDone + 1
    /\ Spawned >= 2 => tasks[2].at - tasks[1].at = 0
    /\ \A n \in 3 .. Spawned : tasks[n].at - tasks[n - 1].at = 1

C7_Witness == Spawned >= 4 /\ gpc = "tick" /\ tasks[4].at = 2

\* C8: for rate >= 1, whenever the loop is between the milestone test and the
\* next spawn, floor(N / rate) milestones are logged for the N lifecycles
\* spawned, and the counter is N mod rate, below rate; the counter never
\* exceeds rate.
C8_Milestones ==
    /\ num_spawned <= rate
    /\ (rate >= 1 /\ gpc \in {"tick_call", "tick", "spawn"})
         => /\ milestones = Spawned \div rate
            /\ num_spawned = Spawned % rate
            /\ 0 <= num_spawned /\ num_spawned < rate

C8_Witness == rate = 3 /\ gpc = "tick" /\ milestones = 2 /\ num_spawned = 1

\* C9: the socket hook is attached in mode AllowMultiple exactly when the
\* kernel version is below 5.7.0 and in mode Single exactly when it is 5.7.0
\* or later.
VersionNumber(v) == v[1] * 10000 + v[2] * 100 + v[3]

C9_AttachMode ==
    \A i \in TaskIds :
      tasks[i].sockAttached =>
        /\ tasks[i].mode = "AllowMultiple" <=> VersionNumber(kernel) < 50700
        /\ tasks[i].mode = "Single" <=> VersionNumber(kernel) >= 50700

C9_Witness ==
    \E i \in TaskIds :
      kernel = <<5, 7, 0>> /\ tasks[i].sockAttached /\ tasks[i].mode = "Single"

\* C10: with fault injection disabled no lifecycle loads or attaches a program,
\* takes or writes the map, reads the configuration file or adds a hook point;
\* the connection is started only after the client namespace was looked up.
C10_BaselinePath ==
    ~enable_traffic_shaping =>
      /\ clsact = {}
      /\ threadNs = HostNs
      /\ \A i \in TaskIds :
           /\ tasks[i].bpf = "Unloaded"
           /\ ~tasks[i].tcLoaded /\ tasks[i].tcAttach = {}
           /\ ~tasks[i].sockLoaded /\ ~tasks[i].sockAttached
           /\ ~tasks[i].mapHandle /\ tasks[i].map = {}
           /\ ~tasks[i].configRead
           /\ tasks[i].stream # "none" => tasks[i].ns

C10_Witness ==
    \E i \in TaskIds : ~enable_traffic_shaping /\ tasks[i].outcome = "closed"

\* C11 (as claimed): data exchange only after a successful connect and only
\* with send_data; a lifecycle that has ended after a successful connect has
\* attempted the shutdown exactly once, after its data exchange if any; after a
\* failed connect there is no data exchange and no shutdown, and the error is
\* logged.
C11_LifecycleOrder ==
    \A i \in TaskIds :
      LET t == tasks[i]
      IN  /\ t.exchange # "none" => t.connected /\ send_data
          /\ t.shutdowns <= 1
          /\ t.shutdowns = 1 => t.connected /\ (send_data => t.exchange = "finished")
          /\ (t.pc \in Ended /\ t.connected) => t.shutdowns = 1
          /\ t.outcome = "connect_failed"
               => ~t.connected /\ t.exchange = "none" /\ t.shutdowns = 0 /\ t.logged

\* C11 (amended): as claimed, except that the shutdown is attempted at most
\* once: exactly once when the data exchange, if any, has finished, and not at
\* all when set_nodelay or a write failed, which ends the lifecycle by a panic
\* in the middle of the data exchange.
C11_LifecycleOrderAmended ==
    \A i \in TaskIds :
      LET t == tasks[i]
      IN  /\ t.exchange # "none" => t.connected /\ send_data
          /\ t.shutdowns <= 1
          /\ t.shutdowns = 1 => t.connected /\ (send_data => t.exchange = "finished")
          /\ (t.pc \in Ended /\ t.connected)
               => \/ t.shutdowns = 1
                  \/ t.shutdowns = 0 /\ send_data /\ t.pc = "panicked"
                       /\ t.outcome = "io" /\ t.exchange # "finished"
          /\ (t.pc = "done" /\ t.connected) => t.shutdowns = 1 /\ t.outcome = "closed"
          /\ t.outcome = "connect_failed"
               => ~t.connected /\ t.exchange = "none" /\ t.shutdowns = 0 /\ t.logged

C11_Witness ==
    \E i \in TaskIds :
      /\ send_data /\ tasks[i].outcome = "closed"
      /\ tasks[i].exchange = "finished" /\ tasks[i].shutdowns = 1

\* C12 (as claimed): the packet count of a data exchange is in [50, 150), and
\* every packet written has the size len chosen for it, in [200, 2048), which
\* is also the size of the response then read.
C12_PacketSizes ==
    \A i \in TaskIds :
      LET t == tasks[i]
      IN  /\ t.exchange # "none" => t.packets >= 50 /\ t.packets < 150
          /\ t.pc \in {"writing", "reading"}
               => t.len >= 200 /\ t.len < 2048 /\ t.wrote = t.len

\* Where a lifecycle is inside the closure of namespace.run (lines 55-81).
InClosure == {"qdisc", "tc_load", "attach_i2", "attach_i3", "ns_exit"}

\* C13 (as claimed): when a lifecycle leaves the namespace-scoped block of
\* setup_ebpf, by its end or by a failure inside it, the execution unit is back
\* in the namespace it was in when the block was entered.
C13_NamespaceRestored ==
    [][\A i \in TaskIds :
         (tasks[i].pc \in InClosure /\ tasks'[i].pc \notin InClosure)
           => threadNs' = tasks[i].src_ns]_vars

\* C14 (as claimed): while the execution unit is switched into a namespace,
\* only the lifecycle that switched it runs on it: whoever holds the unit
\* outside the host namespace is a lifecycle inside its namespace.run closure.
C14_NoInterleavedSwitch ==
    (running # Idle /\ threadNs # HostNs)
      => /\ running \in TaskIds
         /\ tasks[running].pc \in InClosure

\* C15: on the fault-injection path a lifecycle's connect is pending, or has
\* just returned, only with that flow's configuration written in its map,
\* whatever the other lifecycles are doing.
C15_RegisteredBeforeConnect ==
    \A i \in TaskIds :
      (enable_traffic_shaping
         /\ (tasks[i].stream = "pending"
              \/ (tasks[i].pc = "end_block" /\ tasks[i].connected)))
        => /\ tasks[i].mapHandle
           /\ i \in tasks[i].map

C15_Witness ==
    \E i, j \in TaskIds :
      /\ i < j /\ enable_traffic_shaping
      /\ tasks[j].stream = "pending" /\ j \in tasks[j].map
      /\ tasks[i].pc = "end_block" /\ tasks[i].connected /\ i \in tasks[i].map

\* C16: once computed the interval is floor(1_000_000 / rate) microseconds and
\* is not changed: for a rate in 1..1_000_000 it is at least 1, rate intervals
\* fall short of one second by exactly 1_000_000 mod rate microseconds (by
\* nothing exactly when rate divides 1_000_000); for rate 0 or above 1_000_000
\* the generator stops with a panic before its loop.
C16_IntervalOK ==
    /\ gpc \notin {"start", "panicked"}
         => /\ rate >= 1 /\ rate <= 1000000
            /\ micros_per_txn >= 1
            /\ rate * micros_per_txn <= 1000000
            /\ rate * (micros_per_txn + 1) > 1000000
            /\ 1000000 - rate * micros_per_txn = 1000000 % rate
            /\ rate * micros_per_txn = 1000000 <=> 1000000 % rate = 0
    /\ gpc = "panicked" <=> (gpc # "start" /\ (rate = 0 \/ rate > 1000000))
    /\ gpc = "panicked" => Spawned = 0

C16_Interval ==
    /\ []C16_IntervalOK
    /\ [][gpc # "start" => micros_per_txn' = micros_per_txn]_vars

C16_Witness == rate = 3 /\ micros_per_txn = 333333 /\ gpc = "tick" /\ Spawned >= 3

\* C17: the initialization goes Unloaded -> Loaded -> Attached and never back:
\* artifacts first; the packet-path program is loaded and attached, egress on
\* i2 before ingress on i3, inside the middlebox namespace; the socket hook is
\* loaded and attached only after both; nothing is attached before it is
\* loaded; the map handle exists only with all three attachments made, and a
\* lifecycle that failed has none.
BeforeClosure == {"spawned", "branch", "load_ebpf", "get_tester_ns", "ns_enter"}

C17_StateOrder ==
    \A i \in TaskIds :
      LET t == tasks[i]
      IN  /\ t.bpf = "Unloaded" => t.pc \in BeforeClosure \cup {"connect_sans_tc",
                                      "connecting", "end_block", "match", "nodelay",
                                      "loop", "writing", "reading", "sleeping",
                                      "shutdown", "shutting", "done", "panicked"}
          /\ t.tcLoaded => t.bpf \in {"Loaded", "Attached"} /\ t.pc \notin BeforeClosure
          /\ t.tcAttach # {} => t.tcLoaded
          /\ t.tcAttach \subseteq {EgressI2, IngressI3}
          /\ IngressI3 \in t.tcAttach => EgressI2 \in t.tcAttach
          /\ t.pc \in InClosure => running = i /\ threadNs = TCP_TESTER_NAMESPACE
          /\ t.pc \in {"qdisc", "tc_load"} => ~t.tcLoaded /\ t.bpf = "Loaded"
          /\ t.pc = "attach_i2" => t.tcLoaded /\ t.tcAttach = {}
          /\ t.sockLoaded => t.tcAttach = {EgressI2, IngressI3} /\ t.pc \notin InClosure
          /\ t.sockAttached => t.sockLoaded
          /\ t.bpf = "Attached" <=> t.sockAttached
          /\ t.mapHandle => SetupDone(t)
          /\ t.pc = "panicked" => ~t.mapHandle /\ t.bpf \in {"Unloaded", "Dropped"}

C17_Forward ==
    /\ []C17_StateOrder
    /\ [][\A i \in TaskIds :
            \/ tasks'[i].bpf = tasks[i].bpf
            \/ tasks[i].bpf = "Unloaded" /\ tasks'[i].bpf = "Loaded"
            \/ tasks[i].bpf = "Loaded" /\ tasks'[i].bpf = "Attached"
            \/ tasks[i].bpf \in {"Loaded", "Attached"} /\ tasks'[i].bpf = "Dropped"
                 /\ tasks'[i].pc \in {"match", "panicked"}]_vars

C17_Witness ==
    \E i \in TaskIds :
      tasks[i].mapHandle /\ tasks[i].bpf = "Attached" /\ tasks[i].pc = "get_config"

\* C18: the hook-point step never fails: whatever hook points exist and
\* whichever creations succeed, a lifecycle at that step goes on to the load of
\* the packet-path program, its control plane still Loaded.
C18_HookPointsIdempotent ==
    [][\A i \in TaskIds :
         (tasks[i].pc = "qdisc" /\ tasks'[i] # tasks[i])
           => /\ tasks'[i].pc = "tc_load"
              /\ tasks'[i].bpf = "Loaded"
              /\ clsact \subseteq clsact']_vars

C18_Witness ==
    \E i, j \in TaskIds :
      /\ i < j
      /\ tasks[i].tcAttach = {EgressI2, IngressI3}
      /\ tasks[j].pc = "tc_load"
      /\ clsact = {"i2"}

\* C19: the generator loop never reaches a terminal state and never waits for
\* a lifecycle: with a valid rate the generator does not end, and from every
\* state with n lifecycles spawned (n below the cut-off of the run) the spawn
\* of lifecycle n+1 follows, whether or not any awaited operation of the
\* lifecycles 1..n ever completes.
C19_SpawnsForever ==
    /\ [](gpc # "panicked")
    /\ \A n \in 0 .. (MaxSpawn - 1) : (Spawned = n) ~> (Spawned = n + 1)

C19_Witness ==
    /\ Spawned = MaxSpawn
    /\ \A i \in TaskIds : tasks[i].pc = "connecting"

\* C20: in the data exchange a failed response read is tolerated and a failed
\* write is not.  A completed read, failed or not, is followed by the pacing
\* delay and the next round; a lifecycle that has seen a read error goes on to
\* the shutdown unless a later write fails; a lifecycle that panics in the
\* exchange (set_nodelay or write) has attempted no shutdown, and one whose
\* shutdown fails ends with that single attempt; the exchange has at most 149
\* rounds; and a lifecycle whose awaited operations all return ends.
C20_Rounds ==
    \A i \in FirstTask :
      /\ tasks[i].sent <= tasks[i].packets
      /\ tasks[i].packets <= PacketsHi - 1
      /\ tasks[i].shutdowns <= 1
      /\ (tasks[i].pc = "panicked" /\ tasks[i].exchange = "started")
           => tasks[i].shutdowns = 0
      /\ tasks[i].pc \in {"shutdown", "shutting"} /\ send_data
           => tasks[i].exchange = "finished" /\ tasks[i].sent = tasks[i].packets

C20_ReadStep ==
    \A i \in FirstTask :
      /\ (tasks[i].pc = "reading" /\ tasks'[i] # tasks[i])
           => /\ tasks'[i].pc = "sleeping"
              /\ tasks'[i].sent = tasks[i].sent
              /\ tasks'[i].stream = "ok"
      /\ (tasks[i].pc \in {"nodelay", "writing", "shutting"} /\ tasks'[i] # tasks[i])
           => \/ tasks'[i].pc = "panicked" /\ tasks'[i].shutdowns = tasks[i].shutdowns
              \/ tasks'[i].pc \in {"loop", "reading", "done"}

C20_ReadTolerated ==
    /\ []C20_Rounds
    /\ [][C20_ReadStep]_vars
    /\ (\E i \in FirstTask : tasks[i].readFailed)
         ~> (\E i \in FirstTask : tasks[i].shutdowns = 1 \/ tasks[i].pc = "panicked")
    /\ <>(\E i \in FirstTask : tasks[i].pc \in Ended)

C20_Witness ==
    \E i \in FirstTask :
      /\ tasks[i].readFailed
      /\ tasks[i].sent = PacketsHi - 1
      /\ tasks[i].outcome = "closed"
      /\ tasks[i].shutdowns = 1

====
